---- MODULE Spec2Model ----
(***************************************************************************)
(* Request pipeline of the moviedb-effect SDK: error classification,       *)
(* retry policy, request executor and the pagination engine.               *)
(***************************************************************************)
EXTENDS Integers, Sequences, FiniteSets, TLC

VARIABLES
  rPc,        \* withRetry: "ready" | "attempting" | "sleeping" | "done"
  rAttempts,  \* number of times the wrapped operation has been run
  rHistory,   \* outcome of every attempt, in order
  rRecurs,    \* recurrences of the retry schedule so far
  rDelay,     \* wait (ms) chosen by the schedule before the next attempt
  rResult,    \* outcome observed by the caller of withRetry
  cPc,        \* fromHttpStatus harness: "input" | "done"
  cStatus,    \* statusCode argument
  cContext,   \* context argument
  cResult,    \* error built by fromHttpStatus
  ePc,        \* executeJson: "idle" | "ready" | "running" | "done"
  eResponses, \* what the transport returned to each client.get, in order
  eLogs,      \* log lines emitted, in order
  eRequests,  \* moviedb_api_requests_total
  eErrors,    \* moviedb_api_errors_total
  eDurations, \* number of updates of moviedb_api_request_duration_ms
  eClock,     \* Date.now(), ms
  eStartTime, \* startTime captured by executeJson
  eDuration,  \* the duration last recorded in the histogram
  sPc,        \* pagination: "idle" | "built" | "running" | "done"
  sOptions,   \* startPage, maxPages, maxResults, consumer, take, concurrency
  sState,     \* paginateEffect state: Option of {currentPage, pagesFetched}
  sFetched,   \* every fetchPage call and the response it got, in order
  sBuf,       \* items of the current page not yet handed downstream
  sEmitted,   \* items that have passed the maxResults take
  sOut,       \* items received by the consumer / collected, in order
  mPulled,    \* mapEffect: items pulled from the stream, in order
  mOffered,   \* mapEffect: how many of them were put on the result queue
  mStarted,   \* mapEffect: how many transformations have started
  mCompleted, \* mapEffect: indices whose transformation has completed
  mOvertaken, \* mapEffect: has a transformation completed before an earlier one?
  mTaken,     \* mapEffect: queue entries taken by the collecting side
  mFailed,    \* mapEffect: indices whose transformation has failed
  sError,     \* first failure of fetchPage or of a transformation, if any
  sErrorAt,   \* number of fetchPage calls made when that failure happened
  sResult,    \* what the run returns to its caller
  lRate,      \* rate limiter: limit = config.requestsPerSecond (0: not made)
  lTokens,    \* permits free in the limiter's semaphore (the token balance)
  lLatch,     \* permits of the latch that wakes the refill fiber
  lRefill,    \* virtual time at which the refill fiber's sleep ends, or Absent
  lRefilled,  \* tokens given back by the refill fiber so far
  lClock,     \* virtual clock, ms
  lCalls,     \* every execute(operation) call, in order of submission
  lMarks,     \* the balance at the start of every instant the clock has shown
  gPc,        \* client.get: "idle" | "ready" | "waiting" | "admitted" | "returned" | "interrupted"
  gRate,      \* requestsPerSecond of the limiter the client was built with
  gTokens,    \* token balance of that limiter
  gTaken,     \* tokens taken by this client.get call
  gDeadline,  \* the caller's Effect.timeout: "none" | "armed" | "fired"
  gAttemptsAtDeadline, \* transport attempts made when the deadline fired
  gObserved,  \* exit observed by the caller
  kRate,      \* MovieDbCompat: requestsPerSecondLimit of the instance (0: none)
  kRuns,      \* MovieDbCompat: every runEffect call, in order
  kLimiters,  \* MovieDbCompat: token balance of every limiter built so far
  tClock,     \* timed withRetry: the test clock, ms
  tWakeAt,    \* timed withRetry: instant at which the backoff sleep ends, or Absent
  tStarts,    \* timed withRetry: instant at which every attempt started, in order
  tWaits,     \* timed withRetry: every backoff wait: when it began and how long
  qPc,        \* searchMovie: "idle" | "ready" | "called" | "done"
  qPayload,   \* searchMovie: what a 2xx body holds: "conforming" | "mismatch"
  qResult     \* searchMovie: exit observed by the caller

retryVars == <<rPc, rAttempts, rHistory, rRecurs, rDelay, rResult>>
classifyVars == <<cPc, cStatus, cContext, cResult>>
execVars == <<ePc, eResponses, eLogs, eRequests, eErrors, eDurations,
              eClock, eStartTime, eDuration>>
streamVars == <<sPc, sOptions, sState, sFetched, sBuf, sEmitted, sOut,
                mPulled, mOffered, mStarted, mCompleted, mOvertaken, mTaken,
                mFailed, sError, sErrorAt, sResult>>
limiterVars == <<lRate, lTokens, lLatch, lRefill, lRefilled, lClock, lCalls, lMarks>>
clientVars == <<gPc, gRate, gTokens, gTaken, gDeadline, gAttemptsAtDeadline, gObserved>>
compatVars == <<kRate, kRuns, kLimiters>>
timedVars == <<tClock, tWakeAt, tStarts, tWaits>>
searchVars == <<qPc, qPayload, qResult>>
vars == <<rPc, rAttempts, rHistory, rRecurs, rDelay, rResult,
          cPc, cStatus, cContext, cResult,
          ePc, eResponses, eLogs, eRequests, eErrors, eDurations,
          eClock, eStartTime, eDuration,
          sPc, sOptions, sState, sFetched, sBuf, sEmitted, sOut,
          mPulled, mOffered, mStarted, mCompleted, mOvertaken, mTaken,
          mFailed, sError, sErrorAt, sResult,
          lRate, lTokens, lLatch, lRefill, lRefilled, lClock, lCalls, lMarks,
          gPc, gRate, gTokens, gTaken, gDeadline, gAttemptsAtDeadline, gObserved,
          kRate, kRuns, kLimiters,
          tClock, tWakeAt, tStarts, tWaits,
          qPc, qPayload, qResult>>

Min(a, b) == IF a <= b THEN a ELSE b

RECURSIVE Pow2(_)
Pow2(n) == IF n = 0 THEN 1 ELSE 2 * Pow2(n - 1)

(***************************************************************************)
(* Error taxonomy (errors.ts).  Every error is a record of one shape; a    *)
(* field an error kind does not carry holds Absent / NoText.               *)
(***************************************************************************)
Absent == -1
NoText == "absent"

ErrorTags == {"MovieApiError", "NetworkError", "AuthenticationError",
              "RateLimitError", "NotFoundError", "ValidationError",
              "ServerError", "TimeoutError", "ParseError"}

MkMessage(prefix, code, text) == [prefix |-> prefix, code |-> code, text |-> text]

MkError(tag, message) ==
  [tag |-> tag, message |-> message, resource |-> NoText, id |-> NoText,
   retryAfter |-> Absent, statusCode |-> Absent, url |-> NoText, api |-> NoText]

NoContext == [resource |-> NoText, id |-> NoText, retryAfter |-> Absent, api |-> NoText]

\* context?.resource ?? 'unknown'
OrUnknown(v) == IF v = NoText THEN "unknown" ELSE v

IsAuthStatus(code) == code = 401 \/ code = 403
IsNotFoundStatus(code) == code = 404
IsRateLimitStatus(code) == code = 429
IsValidationStatus(code) == code = 400 \/ code = 422
IsServerStatusOffByOne(code) == code > 500
IsServerStatus(code) == code >= 500

fromHttpStatus(statusCode, message, context) ==
  IF IsAuthStatus(statusCode)
    THEN MkError("AuthenticationError", MkMessage("Authentication failed: ", Absent, message))
  ELSE IF IsNotFoundStatus(statusCode)
    THEN [MkError("NotFoundError", MkMessage("", Absent, message))
            EXCEPT !.resource = OrUnknown(context.resource),
                   !.id = OrUnknown(context.id)]
  ELSE IF IsRateLimitStatus(statusCode)
    THEN [MkError("RateLimitError", MkMessage("Rate limit exceeded: ", Absent, message))
            EXCEPT !.retryAfter = context.retryAfter]
  ELSE IF IsValidationStatus(statusCode)
    THEN MkError("ValidationError", MkMessage("Validation failed: ", Absent, message))
  ELSE IF IsServerStatus(statusCode)
    THEN [MkError("ServerError", MkMessage("Server error: ", Absent, message))
            EXCEPT !.statusCode = statusCode]
  ELSE [MkError("MovieApiError", MkMessage("HTTP ", statusCode, message))
            EXCEPT !.api = context.api]

toNetworkError(cause, url) ==
  [MkError("NetworkError", MkMessage("Network request failed: ", Absent, cause))
     EXCEPT !.url = url]

(***************************************************************************)
(* Retry policy (http-client.ts, withRetry).                               *)
(***************************************************************************)
RetryTimes == 3
BaseDelayMs == 100
MaxDelayMs == 10000

RetryWhileNoRateLimit(error) ==
  error.tag = "NetworkError" \/ error.tag = "ServerError"
RetryWhileWithTimeout(error) ==
  error.tag = "NetworkError" \/ error.tag = "RateLimitError"
    \/ error.tag = "ServerError" \/ error.tag = "TimeoutError"
RetryWhile(error) ==
  error.tag = "NetworkError" \/ error.tag = "RateLimitError" \/ error.tag = "ServerError"

\* while: the schedule is asked about the error of each failed attempt,
\* whatever the number of recurrences so far
RetryEligibleFirstOnly(error, recurs) == recurs > 0 \/ RetryWhile(error)
RetryEligible(error, recurs) == RetryWhile(error)

\* times: 3 -- the schedule is intersected with Schedule.recurs(3)
BudgetLeftOffByOne(recurs) == recurs <= RetryTimes
BudgetLeft(recurs) == recurs < RetryTimes

\* Schedule.exponential('100 millis', 2) either Schedule.spaced('10 seconds'):
\* the wait before recurrence n+1 is the smaller of the two delays.
ScheduleDelay(n) == Min(BaseDelayMs * Pow2(n), MaxDelayMs)

Success(v) == [ok |-> TRUE, value |-> v, error |-> MkError("none", MkMessage("", Absent, ""))]
Failure(e) == [ok |-> FALSE, value |-> Absent, error |-> e]
NoResult == [ok |-> FALSE, value |-> Absent, error |-> MkError("pending", MkMessage("", Absent, ""))]

RetryInit ==
  /\ rPc = "ready"
  /\ rAttempts = 0
  /\ rHistory = <<>>
  /\ rRecurs = 0
  /\ rDelay = 0
  /\ rResult = NoResult

\* the caller runs the effect returned by withRetry
RetryStart ==
  /\ rPc = "ready"
  /\ rPc' = "attempting"
  /\ UNCHANGED <<rAttempts, rHistory, rRecurs, rDelay, rResult>>

\* one run of the wrapped effect ending with outcome o, followed by the
\* decision of Effect.retry: succeed, give up, or wait and run again
RetryOnOutcome(o) ==
  /\ rPc = "attempting"
  /\ rAttempts' = rAttempts + 1
  /\ rHistory' = Append(rHistory, o)
  /\ IF o.ok
       THEN /\ rPc' = "done"
            /\ rResult' = o
            /\ UNCHANGED <<rRecurs, rDelay>>
       ELSE IF RetryEligible(o.error, rRecurs) /\ BudgetLeft(rRecurs)
         THEN /\ rPc' = "sleeping"
              /\ rDelay' = ScheduleDelay(rRecurs)
              /\ rRecurs' = rRecurs + 1
              /\ UNCHANGED rResult
         ELSE /\ rPc' = "done"
              /\ rResult' = o
              /\ UNCHANGED <<rRecurs, rDelay>>

\* the backoff wait has elapsed on the clock
RetryWake ==
  /\ rPc = "sleeping"
  /\ rPc' = "attempting"
  /\ UNCHANGED <<rAttempts, rHistory, rRecurs, rDelay, rResult>>

(***************************************************************************)
(* Harness of the retry tests: an operation whose every run ends with an   *)
(* outcome of the environment's choosing.                                  *)
(***************************************************************************)
OpMessages == {"a", "b"}
OpValues == {42, 7}
OpErrors == {MkError(t, MkMessage("", Absent, m)) : t \in ErrorTags, m \in OpMessages}
OpOutcomes == {Success(v) : v \in OpValues} \cup {Failure(e) : e \in OpErrors}

OpAttempt == \E o \in OpOutcomes : RetryOnOutcome(o)

ClassifyIdle ==
  /\ cPc = "idle"
  /\ cStatus = 0
  /\ cContext = NoContext
  /\ cResult = MkError("pending", MkMessage("", Absent, ""))

ExecIdle ==
  /\ ePc = "idle"
  /\ eResponses = <<>>
  /\ eLogs = <<>>
  /\ eRequests = 0
  /\ eErrors = 0
  /\ eDurations = 0
  /\ eClock = 0
  /\ eStartTime = Absent
  /\ eDuration = Absent

NoLimit == -1
NoState == [some |-> FALSE, currentPage |-> 0, pagesFetched |-> 0]
NoOptions == [startPage |-> 1, maxPages |-> NoLimit, maxResults |-> NoLimit,
              consumer |-> "none", take |-> NoLimit, concurrency |-> 1]

\* failures of the pagination engine's collaborators
NoError == [source |-> "none", page |-> 0, index |-> 0]
FetchError(p) == [source |-> "fetchPage", page |-> p, index |-> 0]
FnError(item) == [source |-> "fn", page |-> item.page, index |-> item.index]

\* Exit of a run: the collected items, or only the error
NoRun == [ok |-> FALSE, items |-> <<>>, error |-> NoError]
Collected(items) == [ok |-> TRUE, items |-> items, error |-> NoError]
Failed(e) == [ok |-> FALSE, items |-> <<>>, error |-> e]

StreamIdle ==
  /\ sPc = "idle"
  /\ sOptions = NoOptions
  /\ sState = NoState
  /\ sFetched = <<>>
  /\ sBuf = <<>>
  /\ sEmitted = 0
  /\ sOut = <<>>
  /\ mPulled = <<>>
  /\ mOffered = 0
  /\ mStarted = 0
  /\ mCompleted = {}
  /\ mOvertaken = FALSE
  /\ mTaken = 0
  /\ mFailed = {}
  /\ sError = NoError
  /\ sErrorAt = Absent
  /\ sResult = NoRun

LimiterIdle ==
  /\ lRate = 0
  /\ lTokens = 0
  /\ lLatch = 0
  /\ lRefill = Absent
  /\ lRefilled = 0
  /\ lClock = 0
  /\ lCalls = <<>>
  /\ lMarks = <<>>

ClientIdle ==
  /\ gPc = "idle"
  /\ gRate = 0
  /\ gTokens = 0
  /\ gTaken = 0
  /\ gDeadline = "none"
  /\ gAttemptsAtDeadline = Absent
  /\ gObserved = NoResult

CompatIdle ==
  /\ kRate = 0
  /\ kRuns = <<>>
  /\ kLimiters = <<>>

TimedIdle ==
  /\ tClock = 0
  /\ tWakeAt = Absent
  /\ tStarts = <<>>
  /\ tWaits = <<>>

SearchIdle ==
  /\ qPc = "idle"
  /\ qPayload = "conforming"
  /\ qResult = NoResult

RetryNext ==
  \/ RetryStart /\ UNCHANGED <<classifyVars, execVars, streamVars, limiterVars, clientVars, compatVars, timedVars, searchVars>>
  \/ OpAttempt /\ UNCHANGED <<classifyVars, execVars, streamVars, limiterVars, clientVars, compatVars, timedVars, searchVars>>
  \/ RetryWake /\ UNCHANGED <<classifyVars, execVars, streamVars, limiterVars, clientVars, compatVars, timedVars, searchVars>>

InitRetry == RetryInit /\ ClassifyIdle /\ ExecIdle /\ StreamIdle /\ LimiterIdle /\ ClientIdle /\ CompatIdle /\ TimedIdle /\ SearchIdle

SpecRetry == InitRetry /\ [][RetryNext]_vars

(***************************************************************************)
(* fromHttpStatus applied to every status code and context.                *)
(***************************************************************************)
MaxStatus == 600
StatusCodes == 0..MaxStatus
Contexts == [resource : {NoText, "movie"}, id : {NoText, "550"},
             retryAfter : {Absent, 30}, api : {NoText, "tmdb"}]
StatusText == "status text"

ClassifyInit ==
  /\ cPc = "input"
  /\ cStatus \in StatusCodes
  /\ cContext \in Contexts
  /\ cResult = MkError("pending", MkMessage("", Absent, ""))

Classify ==
  /\ cPc = "input"
  /\ cResult' = fromHttpStatus(cStatus, StatusText, cContext)
  /\ cPc' = "done"
  /\ UNCHANGED <<cStatus, cContext>>

ClassifyNext == Classify /\ UNCHANGED <<retryVars, execVars, streamVars, limiterVars, clientVars, compatVars, timedVars, searchVars>>

InitClassify == ClassifyInit /\ RetryInit /\ ExecIdle /\ StreamIdle /\ LimiterIdle /\ ClientIdle /\ CompatIdle /\ TimedIdle /\ SearchIdle

SpecClassify == InitClassify /\ [][ClassifyNext]_vars

(***************************************************************************)
(* Request executor (http-client.ts, executeJson).                         *)
(***************************************************************************)
\* what the HTTP primitive can return to one client.get(path)
OkStatuses == {200, 204}
ErrorStatuses == {301, 400, 401, 403, 404, 422, 429, 500, 503}
RetryAfterValues == {1, 30}
RequestUrl == "https://api.themoviedb.org/3/movie/550"

Response(status, retryAfter, body) ==
  [kind |-> "response", status |-> status, retryAfter |-> retryAfter, body |-> body]
RequestError == [kind |-> "requestError", status |-> Absent, retryAfter |-> Absent, body |-> "none"]

TransportOutcomes ==
  {Response(st, Absent, b) : st \in OkStatuses, b \in {"json", "garbage"}}
    \cup {Response(st, Absent, "json") : st \in ErrorStatuses}
    \cup {Response(st, ra, "json") : st \in {429, 503}, ra \in RetryAfterValues}
    \cup {RequestError}

Is2xx(status) == status >= 200 /\ status < 300

\* context handed to fromHttpStatus by the ResponseError handler
ResponseErrorContext(t) == NoContext

AttemptOutcomeParseAsTransport(t) ==
  IF t.kind = "requestError" \/ (Is2xx(t.status) /\ t.body # "json")
    THEN Failure(toNetworkError("cause", RequestUrl))
  ELSE IF Is2xx(t.status)
    THEN Success(t.status)
  ELSE Failure(fromHttpStatus(t.status, StatusText, ResponseErrorContext(t)))

\* client.get(path) |> flatMap(response.json) |> catchTags(...):
\* filterStatusOk turns a non-2xx response into a ResponseError, response.json
\* fails with a ResponseError on an unparsable body, a transport failure is a
\* RequestError
AttemptOutcome(t) ==
  IF t.kind = "requestError"
    THEN Failure(toNetworkError("cause", RequestUrl))
  ELSE IF Is2xx(t.status) /\ t.body = "json"
    THEN Success(t.status)
  ELSE Failure(fromHttpStatus(t.status, StatusText, ResponseErrorContext(t)))

ExecInit ==
  /\ ePc = "ready"
  /\ eResponses = <<>>
  /\ eLogs = <<>>
  /\ eRequests = 0
  /\ eErrors = 0
  /\ eDurations = 0
  /\ eClock = 0
  /\ eStartTime = Absent
  /\ eDuration = Absent

\* the effect is run: request-start debug log, then the first attempt begins
ExecStart ==
  /\ ePc = "ready"
  /\ RetryStart
  /\ ePc' = "running"
  /\ eStartTime' = eClock
  /\ eLogs' = Append(eLogs, "started")
  /\ UNCHANGED <<eResponses, eRequests, eErrors, eDurations, eClock, eDuration>>

ExecAttempt ==
  /\ ePc = "running"
  /\ \E t \in TransportOutcomes :
       /\ RetryOnOutcome(AttemptOutcome(t))
       /\ eResponses' = Append(eResponses, t)
  /\ UNCHANGED <<ePc, eLogs, eRequests, eErrors, eDurations,
                 eClock, eStartTime, eDuration>>

\* the backoff wait is over: the clock has moved on by the delay
ExecWake ==
  /\ ePc = "running"
  /\ RetryWake
  /\ eClock' = eClock + rDelay
  /\ UNCHANGED <<ePc, eResponses, eLogs, eRequests, eErrors, eDurations,
                 eStartTime, eDuration>>

\* the taps sit outside withRetry: they see only its final exit
RetrySettledOrWaiting == rPc \in {"done", "sleeping"}
RetrySettled == rPc = "done"

\* Effect.tap / Effect.tapError after withRetry has settled
ExecSettle ==
  /\ ePc = "running"
  /\ RetrySettled
  /\ ePc' = "done"
  /\ eDuration' = eClock - eStartTime
  /\ IF rResult.ok
       THEN /\ eLogs' = Append(eLogs, "completed")
            /\ eRequests' = eRequests + 1
            /\ eDurations' = eDurations + 1
            /\ UNCHANGED eErrors
       ELSE /\ eLogs' = Append(eLogs, "failed")
            /\ eErrors' = eErrors + 1
            /\ eDurations' = eDurations + 1
            /\ UNCHANGED eRequests
  /\ UNCHANGED <<retryVars, eResponses, eClock, eStartTime>>

ExecNext ==
  \/ ExecStart /\ UNCHANGED <<classifyVars, streamVars, limiterVars, clientVars, compatVars, timedVars, searchVars>>
  \/ ExecAttempt /\ UNCHANGED <<classifyVars, streamVars, limiterVars, clientVars, compatVars, timedVars, searchVars>>
  \/ ExecWake /\ UNCHANGED <<classifyVars, streamVars, limiterVars, clientVars, compatVars, timedVars, searchVars>>
  \/ ExecSettle /\ UNCHANGED <<classifyVars, streamVars, limiterVars, clientVars, compatVars, timedVars, searchVars>>

InitExec == ExecInit /\ RetryInit /\ ClassifyIdle /\ StreamIdle /\ LimiterIdle /\ ClientIdle /\ CompatIdle /\ TimedIdle /\ SearchIdle

SpecExec == InitExec /\ [][ExecNext]_vars

(***************************************************************************)
(* Pagination engine (streaming.ts): paginatedStream, collectAllPages,     *)
(* mapPaginated, mapPaginatedEffect.                                       *)
(***************************************************************************)
MaxPage == 3          \* highest totalPages a response reports
MaxPageMapEffect == 2 \* the same, for the runs of mapPaginatedEffect
MaxPageSize == 2      \* most items on one page
MaxStartPage == 2
MaxPagesOption == 2
MaxResultsOption == 3
MaxTake == 2
MaxConcurrency == 2

Range(seq) == {seq[i] : i \in 1..Len(seq)}
TakeSeq(seq, n) == SubSeq(seq, 1, Min(n, Len(seq)))

Item(p, i) == [page |-> p, index |-> i, mapped |-> FALSE]
\* the transformation handed to mapPaginated / mapPaginatedEffect
Fn(item) == [item EXCEPT !.mapped = TRUE]
MapSeq(seq) == [i \in 1..Len(seq) |-> Fn(seq[i])]

\* results of a response for page p holding size items
PageResults(p, size) == [i \in 1..size |-> Item(p, i)]

Consumers == {"stream", "collect", "map", "mapEffect"}

OptionSets ==
  {o \in [startPage : 1..MaxStartPage,
          maxPages : {NoLimit} \cup 0..MaxPagesOption,
          maxResults : {NoLimit} \cup 0..MaxResultsOption,
          consumer : Consumers,
          take : {NoLimit} \cup 0..MaxTake,
          concurrency : 1..MaxConcurrency] :
     /\ o.consumer # "stream" => o.take = NoLimit
     /\ o.consumer # "mapEffect" => o.concurrency = 1}

\* const isLastPage = state.currentPage >= response.totalPages
IsLastPageStrict(state, totalPages) == state.currentPage > totalPages
IsLastPage(state, totalPages) == state.currentPage >= totalPages

\* const hitMaxPages = maxPages !== undefined && state.pagesFetched >= maxPages - 1
HitMaxPagesLate(state, maxPages) ==
  maxPages # NoLimit /\ state.pagesFetched >= maxPages
HitMaxPages(state, maxPages) ==
  maxPages # NoLimit /\ state.pagesFetched >= maxPages - 1

\* the Option returned next to response.results
NextPageState(state, totalPages, maxPages) ==
  IF IsLastPage(state, totalPages) \/ HitMaxPages(state, maxPages)
    THEN NoState
    ELSE [some |-> TRUE, currentPage |-> state.currentPage + 1,
          pagesFetched |-> state.pagesFetched + 1]

\* maxResults !== undefined ? Stream.take(flattened, maxResults) : flattened
MaxResultsChunkWholePage(chunk, emitted, maxResults) == chunk
MaxResultsChunk(chunk, emitted, maxResults) ==
  IF maxResults = NoLimit THEN chunk ELSE TakeSeq(chunk, maxResults - emitted)

\* the totalPages values a response may report
ReportedTotals ==
  1..(IF sOptions.consumer = "mapEffect" THEN MaxPageMapEffect ELSE MaxPage)

\* Stream.take(n) stops pulling as soon as n items have gone through
MaxResultsReachedLate == sOptions.maxResults # NoLimit /\ sEmitted > sOptions.maxResults
MaxResultsReached == sOptions.maxResults # NoLimit /\ sEmitted >= sOptions.maxResults
UpstreamEndedOnlyByMaxResults == MaxResultsReached
UpstreamEnded == ~sState.some \/ MaxResultsReached

TakeReached == sOptions.take # NoLimit /\ Len(sOut) >= sOptions.take

Running == (1..mStarted) \ (mCompleted \cup mFailed)

\* Stream.mapEffect with concurrency n > 1 pulls the next item once the
\* previous item's transformation holds its permit; with concurrency 1 it is
\* sequential and pulls once the previous result has been emitted
PullerReady ==
  IF sOptions.concurrency > 1
    THEN mStarted = Len(mPulled)
    ELSE Len(sOut) = Len(mPulled)

\* is the consumer asking the stream for more?
DemandEager == TRUE
Demand ==
  CASE sOptions.consumer = "stream" -> ~TakeReached
    [] sOptions.consumer = "mapEffect" -> PullerReady
    [] OTHER -> TRUE

StreamInit ==
  /\ sPc = "built"
  /\ sOptions \in OptionSets
  /\ sState = [some |-> TRUE, currentPage |-> sOptions.startPage, pagesFetched |-> 0]
  /\ sFetched = <<>>
  /\ sBuf = <<>>
  /\ sEmitted = 0
  /\ sOut = <<>>
  /\ mPulled = <<>>
  /\ mOffered = 0
  /\ mStarted = 0
  /\ mCompleted = {}
  /\ mOvertaken = FALSE
  /\ mTaken = 0
  /\ mFailed = {}
  /\ sError = NoError
  /\ sErrorAt = Absent
  /\ sResult = NoRun

\* the consumer starts running the stream (Stream.runCollect)
StreamRun ==
  /\ sPc = "built"
  /\ sPc' = "running"
  /\ UNCHANGED <<sOptions, sState, sFetched, sBuf, sEmitted, sOut,
                 mPulled, mOffered, mStarted, mCompleted, mOvertaken, mTaken,
                 mFailed, sError, sErrorAt, sResult>>

\* a failed fetchPage has ended paginateEffect: it is never stepped again
UpstreamFailedNever == FALSE
UpstreamFailed == sError.source = "fetchPage"

\* mapEffect with concurrency n > 1 runs the transformations and the pulling
\* of its upstream in fibers of their own: a failure reaches the collecting
\* side through the queue of result slots
Detached == sOptions.consumer = "mapEffect" /\ sOptions.concurrency > 1

\* flatMap(fromIterable) runs the stream of one page's results to its end
\* before it pulls the next page
PageHandedOnAlways == TRUE
PageHandedOn == sBuf = <<>>

\* paginateEffect is asked for its next page
FetchDue ==
  /\ sPc = "running"
  /\ sState.some
  /\ ~UpstreamFailed
  /\ ~MaxResultsReached
  /\ PageHandedOn
  /\ Demand

\* one step of Stream.paginateEffect: fetchPage(state.currentPage), then the
\* page's results go through flatMap(fromIterable) and the maxResults take
FetchPage ==
  /\ FetchDue
  /\ \E size \in 0..MaxPageSize, totalPages \in ReportedTotals :
       LET chunk == MaxResultsChunk(PageResults(sState.currentPage, size),
                                    sEmitted, sOptions.maxResults)
       IN /\ sFetched' = Append(sFetched, [page |-> sState.currentPage,
                                           size |-> size, totalPages |-> totalPages,
                                           ok |-> TRUE])
          /\ sState' = NextPageState(sState, totalPages, sOptions.maxPages)
          /\ sBuf' = chunk
          /\ sEmitted' = sEmitted + Len(chunk)
  /\ UNCHANGED <<sPc, sOptions, sOut, mPulled, mOffered, mStarted, mCompleted, mOvertaken, mTaken,
                 mFailed, sError, sErrorAt, sResult>>

\* the same step when fetchPage(state.currentPage) fails: the stream fails
\* with that error
FetchPageFail ==
  /\ FetchDue
  /\ sError = NoError
  /\ sFetched' = Append(sFetched, [page |-> sState.currentPage, size |-> 0,
                                   totalPages |-> Absent, ok |-> FALSE])
  /\ sError' = FetchError(sState.currentPage)
  /\ sErrorAt' = Len(sFetched) + 1
  /\ IF Detached
       THEN UNCHANGED <<sPc, sResult>>
       ELSE sPc' = "failed" /\ sResult' = Failed(sError')
  /\ UNCHANGED <<sOptions, sState, sBuf, sEmitted, sOut,
                 mPulled, mOffered, mStarted, mCompleted, mOvertaken, mTaken, mFailed>>

\* the chunk reaches Stream.take(k) / Stream.map(fn) and Stream.runCollect
Deliver ==
  /\ sPc = "running"
  /\ sOptions.consumer \in {"stream", "collect", "map"}
  /\ sBuf # <<>>
  /\ ~TakeReached
  /\ sOut' = sOut \o
       (CASE sOptions.consumer = "map" -> MapSeq(sBuf)
          [] sOptions.consumer = "stream" /\ sOptions.take # NoLimit ->
               TakeSeq(sBuf, sOptions.take - Len(sOut))
          [] OTHER -> sBuf)
  /\ sBuf' = <<>>
  /\ UNCHANGED <<sPc, sOptions, sState, sFetched, sEmitted,
                 mPulled, mOffered, mStarted, mCompleted, mOvertaken, mTaken,
                 mFailed, sError, sErrorAt, sResult>>

\* mapPaginated: fn throws on an item of the chunk inside Stream.map
DeliverFail ==
  /\ sPc = "running"
  /\ sOptions.consumer = "map"
  /\ sBuf # <<>>
  /\ \E i \in 1..Len(sBuf) : sError' = FnError(sBuf[i])
  /\ sErrorAt' = Len(sFetched)
  /\ sPc' = "failed"
  /\ sResult' = Failed(sError')
  /\ UNCHANGED <<sOptions, sState, sFetched, sBuf, sEmitted, sOut,
                 mPulled, mOffered, mStarted, mCompleted, mOvertaken, mTaken, mFailed>>

\* mapEffect: the next item is pulled out of the current chunk
MapPull ==
  /\ sPc = "running"
  /\ sOptions.consumer = "mapEffect"
  /\ sBuf # <<>>
  /\ PullerReady
  /\ mPulled' = Append(mPulled, Head(sBuf))
  /\ sBuf' = Tail(sBuf)
  /\ UNCHANGED <<sPc, sOptions, sState, sFetched, sEmitted, sOut,
                 mOffered, mStarted, mCompleted, mOvertaken, mTaken,
                 mFailed, sError, sErrorAt, sResult>>

\* mapEffect: its result slot is put on the bounded queue (capacity n)
MapOffer ==
  /\ sPc = "running"
  /\ mOffered < Len(mPulled)
  /\ mOffered - mTaken < sOptions.concurrency
  /\ mOffered' = mOffered + 1
  /\ UNCHANGED <<sPc, sOptions, sState, sFetched, sBuf, sEmitted, sOut,
                 mPulled, mStarted, mCompleted, mOvertaken, mTaken,
                 mFailed, sError, sErrorAt, sResult>>

\* mapEffect: the semaphore of n = concurrency permits has one to give
PermitFreeOneExtra == Cardinality(Running) <= sOptions.concurrency
PermitFree == Cardinality(Running) < sOptions.concurrency

\* mapEffect: fn(item) starts once one of the n permits is free
MapStart ==
  /\ sPc = "running"
  /\ mStarted < mOffered
  /\ PermitFree
  /\ mStarted' = mStarted + 1
  /\ mFailed' = IF mFailed = {} THEN mFailed ELSE mFailed \cup {mStarted + 1}
  /\ UNCHANGED <<sPc, sOptions, sState, sFetched, sBuf, sEmitted, sOut,
                 mPulled, mOffered, mCompleted, mOvertaken, mTaken,
                 sError, sErrorAt, sResult>>

\* mapEffect: any running transformation completes
MapComplete ==
  /\ sPc = "running"
  /\ \E i \in Running :
       /\ mCompleted' = mCompleted \cup {i}
       /\ mOvertaken' = (mOvertaken \/ \E j \in Running : j < i)
  /\ UNCHANGED <<sPc, sOptions, sState, sFetched, sBuf, sEmitted, sOut,
                 mPulled, mOffered, mStarted, mTaken,
                 mFailed, sError, sErrorAt, sResult>>

\* mapEffect: a running fn(item) fails.  Sequential mapEffect fails the
\* stream at once; with concurrency n > 1 the error signal fails every
\* transformation still running, and the failure waits in its result slot
MapFail ==
  /\ sPc = "running"
  /\ sError = NoError
  /\ \E i \in Running :
       /\ sError' = FnError(mPulled[i])
       /\ mFailed' = IF Detached THEN Running ELSE {i}
  /\ sErrorAt' = Len(sFetched)
  /\ IF Detached
       THEN UNCHANGED <<sPc, sResult>>
       ELSE sPc' = "failed" /\ sResult' = Failed(sError')
  /\ UNCHANGED <<sOptions, sState, sFetched, sBuf, sEmitted, sOut,
                 mPulled, mOffered, mStarted, mCompleted, mOvertaken, mTaken>>

\* mapEffect with concurrency n > 1: the collecting side receives the failure,
\* from the slot it awaits or, for a failed fetchPage, from the entry queued
\* behind the slots of the items pulled before it
MapObserve ==
  /\ sPc = "running"
  /\ Detached
  /\ \/ mTaken = Len(sOut) + 1 /\ mTaken \in mFailed
     \/ UpstreamFailed /\ mTaken = Len(sOut) /\ Len(sOut) = Len(mPulled)
  /\ sPc' = "failed"
  /\ sResult' = Failed(sError)
  /\ UNCHANGED <<sOptions, sState, sFetched, sBuf, sEmitted, sOut,
                 mPulled, mOffered, mStarted, mCompleted, mOvertaken, mTaken,
                 mFailed, sError, sErrorAt>>

\* mapEffect: the collecting side takes the head slot of the queue
MapTake ==
  /\ sPc = "running"
  /\ mTaken < mOffered
  /\ mTaken = Len(sOut)
  /\ mTaken' = mTaken + 1
  /\ UNCHANGED <<sPc, sOptions, sState, sFetched, sBuf, sEmitted, sOut,
                 mPulled, mOffered, mStarted, mCompleted, mOvertaken,
                 mFailed, sError, sErrorAt, sResult>>

\* which transformation's result the collecting side may emit next
EmitCandidatesUnordered == {i \in mCompleted : Fn(mPulled[i]) \notin Range(sOut)}
EmitCandidates == {mTaken} \cap mCompleted

\* mapEffect: the awaited slot is filled and its result is emitted
MapEmit ==
  /\ sPc = "running"
  /\ mTaken = Len(sOut) + 1
  /\ \E i \in EmitCandidates : sOut' = Append(sOut, Fn(mPulled[i]))
  /\ UNCHANGED <<sPc, sOptions, sState, sFetched, sBuf, sEmitted,
                 mPulled, mOffered, mStarted, mCompleted, mOvertaken, mTaken,
                 mFailed, sError, sErrorAt, sResult>>

\* the stream ends: upstream exhausted and everything handed on, or the
\* consumer's take is satisfied
StreamFinish ==
  /\ sPc = "running"
  /\ sError = NoError
  /\ IF sOptions.consumer = "mapEffect"
       THEN UpstreamEnded /\ sBuf = <<>> /\ Len(sOut) = Len(mPulled)
       ELSE TakeReached \/ (UpstreamEnded /\ sBuf = <<>>)
  /\ sPc' = "done"
  /\ sResult' = Collected(sOut)
  /\ UNCHANGED <<sOptions, sState, sFetched, sBuf, sEmitted, sOut,
                 mPulled, mOffered, mStarted, mCompleted, mOvertaken, mTaken,
                 mFailed, sError, sErrorAt>>

StreamNext ==
  \/ StreamRun /\ UNCHANGED <<retryVars, classifyVars, execVars, limiterVars, clientVars, compatVars, timedVars, searchVars>>
  \/ FetchPage /\ UNCHANGED <<retryVars, classifyVars, execVars, limiterVars, clientVars, compatVars, timedVars, searchVars>>
  \/ FetchPageFail /\ UNCHANGED <<retryVars, classifyVars, execVars, limiterVars, clientVars, compatVars, timedVars, searchVars>>
  \/ Deliver /\ UNCHANGED <<retryVars, classifyVars, execVars, limiterVars, clientVars, compatVars, timedVars, searchVars>>
  \/ DeliverFail /\ UNCHANGED <<retryVars, classifyVars, execVars, limiterVars, clientVars, compatVars, timedVars, searchVars>>
  \/ MapFail /\ UNCHANGED <<retryVars, classifyVars, execVars, limiterVars, clientVars, compatVars, timedVars, searchVars>>
  \/ MapObserve /\ UNCHANGED <<retryVars, classifyVars, execVars, limiterVars, clientVars, compatVars, timedVars, searchVars>>
  \/ MapPull /\ UNCHANGED <<retryVars, classifyVars, execVars, limiterVars, clientVars, compatVars, timedVars, searchVars>>
  \/ MapOffer /\ UNCHANGED <<retryVars, classifyVars, execVars, limiterVars, clientVars, compatVars, timedVars, searchVars>>
  \/ MapStart /\ UNCHANGED <<retryVars, classifyVars, execVars, limiterVars, clientVars, compatVars, timedVars, searchVars>>
  \/ MapComplete /\ UNCHANGED <<retryVars, classifyVars, execVars, limiterVars, clientVars, compatVars, timedVars, searchVars>>
  \/ MapTake /\ UNCHANGED <<retryVars, classifyVars, execVars, limiterVars, clientVars, compatVars, timedVars, searchVars>>
  \/ MapEmit /\ UNCHANGED <<retryVars, classifyVars, execVars, limiterVars, clientVars, compatVars, timedVars, searchVars>>
  \/ StreamFinish /\ UNCHANGED <<retryVars, classifyVars, execVars, limiterVars, clientVars, compatVars, timedVars, searchVars>>

InitStream == StreamInit /\ RetryInit /\ ClassifyIdle /\ ExecIdle /\ LimiterIdle /\ ClientIdle /\ CompatIdle /\ TimedIdle /\ SearchIdle

SpecStream == InitStream /\ [][StreamNext]_vars

(***************************************************************************)
(* paginatedStream drained to its end (Stream.runCollect, collectAllPages) *)
(* over a fetchPage that always succeeds.                                  *)
(***************************************************************************)
DrainInit ==
  /\ StreamInit
  /\ sOptions.consumer \in {"stream", "collect"}
  /\ sOptions.take = NoLimit

DrainNext ==
  \/ StreamRun /\ UNCHANGED <<retryVars, classifyVars, execVars, limiterVars, clientVars, compatVars, timedVars, searchVars>>
  \/ FetchPage /\ UNCHANGED <<retryVars, classifyVars, execVars, limiterVars, clientVars, compatVars, timedVars, searchVars>>
  \/ Deliver /\ UNCHANGED <<retryVars, classifyVars, execVars, limiterVars, clientVars, compatVars, timedVars, searchVars>>
  \/ StreamFinish /\ UNCHANGED <<retryVars, classifyVars, execVars, limiterVars, clientVars, compatVars, timedVars, searchVars>>

InitDrain == DrainInit /\ RetryInit /\ ClassifyIdle /\ ExecIdle /\ LimiterIdle /\ ClientIdle /\ CompatIdle /\ TimedIdle /\ SearchIdle

\* the runtime keeps running the fiber that drains the stream for as long as
\* it has a step to take
SpecDrain == InitDrain /\ [][DrainNext]_vars /\ WF_vars(DrainNext)

(***************************************************************************)
(* Rate limiter (rate-limiter.ts): RateLimiter.make with the token-bucket  *)
(* algorithm, driven by a virtual clock.                                   *)
(***************************************************************************)
MaxRate == 2      \* highest requestsPerSecond
MaxCalls == 4     \* execute calls in one run
MaxClock == 1500  \* virtual time explored, ms

\* interval: '1 seconds'
IntervalMs == 1000

\* the refill fiber gives back one token every ceil(interval / limit) ms
MillisPerTokenFloorNext(limit) == IntervalMs \div (limit + 1)
MillisPerToken(limit) == (IntervalMs + limit - 1) \div limit

\* the exits of the operations handed to execute by the limiter's tests
LimiterOps == {Success(42), Failure(MkError("Error", MkMessage("", Absent, "Test error")))}

\* a call of execute: op is the exit of its operation once that has run
NewCall(now) ==
  [op |-> NoResult, pc |-> "waiting", runs |-> 0, result |-> NoResult,
   since |-> now, at |-> Absent]

\* rateLimiter(effect) is the effect run after the take: its exit is the
\* exit of the call
LimitedExitMasked(exit) ==
  IF exit.ok THEN exit
  ELSE Failure(MkError("RateLimitError", MkMessage("", Absent, "")))
LimitedExit(exit) == exit

\* semaphore.take(1) goes through only while a permit is free
TokenAvailableOnCredit == lTokens >= 0
TokenAvailable == lTokens >= 1

Waiting == {i \in 1..Len(lCalls) : lCalls[i].pc = "waiting"}
Admitted == {i \in 1..Len(lCalls) : lCalls[i].at # Absent}

\* makeRateLimiter(config): a full bucket, the refill fiber parked on its latch
LimiterInit ==
  /\ lRate \in 1..MaxRate
  /\ lTokens = lRate
  /\ lLatch = 0
  /\ lRefill = Absent
  /\ lRefilled = 0
  /\ lClock = 0
  /\ lCalls = <<>>
  /\ lMarks = <<[time |-> 0, balance |-> lRate]>>

\* a caller runs limiter.execute(operation)
Execute ==
  /\ Len(lCalls) < MaxCalls
  /\ lCalls' = Append(lCalls, NewCall(lClock))
  /\ UNCHANGED <<lRate, lTokens, lLatch, lRefill, lRefilled, lClock, lMarks>>

\* latch.release(1) after the take: the refill fiber has work to do
LatchReleasedNot(latch) == latch
LatchReleased(latch) == latch + 1

\* the take of a call goes through: one permit is taken, the latch is
\* released, and the operation is run; its exit is the call's exit
Admit ==
  /\ TokenAvailable
  /\ \E i \in Waiting, op \in LimiterOps :
       lCalls' = [lCalls EXCEPT ![i].pc = "done", ![i].runs = @ + 1,
                                ![i].at = lClock, ![i].op = op,
                                ![i].result = LimitedExit(op)]
  /\ lTokens' = lTokens - 1
  /\ lLatch' = LatchReleased(lLatch)
  /\ UNCHANGED <<lRate, lRefill, lRefilled, lClock, lMarks>>

\* refill fiber: latch.take(1), then sleep for one token's time
RefillArm ==
  /\ lRefill = Absent
  /\ lLatch >= 1
  /\ lLatch' = lLatch - 1
  /\ lRefill' = lClock + MillisPerToken(lRate)
  /\ UNCHANGED <<lRate, lTokens, lRefilled, lClock, lCalls, lMarks>>

\* refill fiber: the sleep is over: latch.releaseAll, semaphore.release(1),
\* and another round unless the bucket is full again
RefillFire ==
  /\ lRefill = lClock
  /\ lLatch' = 0
  /\ lTokens' = lTokens + 1
  /\ lRefilled' = lRefilled + 1
  /\ lRefill' = IF lTokens + 1 = lRate THEN Absent
                ELSE lClock + MillisPerToken(lRate)
  /\ UNCHANGED <<lRate, lClock, lCalls, lMarks>>

\* the clock is moved by half a token's time, so that calls arrive both in
\* and out of phase with the refill timer
ClockStep == MillisPerToken(lRate) \div 2

\* nothing is left to do at this instant
Quiet ==
  /\ Waiting # {} => ~TokenAvailable
  /\ lRefill = Absent => lLatch = 0
  /\ lRefill # lClock

\* the virtual clock is moved forward, up to the next timer expiry
Elapse ==
  /\ Quiet
  /\ \E d \in {ClockStep} \cup (IF lRefill = Absent THEN {} ELSE {lRefill - lClock}) :
       /\ lClock + d <= MaxClock
       /\ lRefill # Absent => lClock + d <= lRefill
       /\ lClock' = lClock + d
       /\ lMarks' = Append(lMarks, [time |-> lClock + d, balance |-> lTokens])
  /\ UNCHANGED <<lRate, lTokens, lLatch, lRefill, lRefilled, lCalls>>

LimiterNext ==
  \/ Execute /\ UNCHANGED <<retryVars, classifyVars, execVars, streamVars, clientVars, compatVars, timedVars, searchVars>>
  \/ Admit /\ UNCHANGED <<retryVars, classifyVars, execVars, streamVars, clientVars, compatVars, timedVars, searchVars>>
  \/ RefillArm /\ UNCHANGED <<retryVars, classifyVars, execVars, streamVars, clientVars, compatVars, timedVars, searchVars>>
  \/ RefillFire /\ UNCHANGED <<retryVars, classifyVars, execVars, streamVars, clientVars, compatVars, timedVars, searchVars>>
  \/ Elapse /\ UNCHANGED <<retryVars, classifyVars, execVars, streamVars, clientVars, compatVars, timedVars, searchVars>>

InitLimiter == LimiterInit /\ RetryInit /\ ClassifyIdle /\ ExecIdle /\ StreamIdle /\ ClientIdle /\ CompatIdle /\ TimedIdle /\ SearchIdle

SpecLimiter == InitLimiter /\ [][LimiterNext]_vars

(***************************************************************************)
(* The rate limiter with the clock advancing: time moves to the end of the *)
(* refill fiber's sleep whenever nothing else can run, and the runtime     *)
(* keeps running every fiber that has a step to take.                      *)
(***************************************************************************)
\* the clock reaches the instant the refill fiber sleeps until
SleepElapse ==
  /\ Quiet
  /\ lRefill # Absent
  /\ lClock' = lRefill
  /\ lMarks' = Append(lMarks, [time |-> lRefill, balance |-> lTokens])
  /\ UNCHANGED <<lRate, lTokens, lLatch, lRefill, lRefilled, lCalls>>

nonLimiterVars == <<retryVars, classifyVars, execVars, streamVars, clientVars, compatVars, timedVars, searchVars>>

LimiterLiveNext ==
  \/ Execute /\ UNCHANGED <<retryVars, classifyVars, execVars, streamVars, clientVars, compatVars, timedVars, searchVars>>
  \/ Admit /\ UNCHANGED <<retryVars, classifyVars, execVars, streamVars, clientVars, compatVars, timedVars, searchVars>>
  \/ RefillArm /\ UNCHANGED <<retryVars, classifyVars, execVars, streamVars, clientVars, compatVars, timedVars, searchVars>>
  \/ RefillFire /\ UNCHANGED <<retryVars, classifyVars, execVars, streamVars, clientVars, compatVars, timedVars, searchVars>>
  \/ SleepElapse /\ UNCHANGED <<retryVars, classifyVars, execVars, streamVars, clientVars, compatVars, timedVars, searchVars>>

\* callers may stop calling; the limiter's fibers and the clock do not stop
LimiterFairness ==
  /\ WF_vars(Admit /\ UNCHANGED nonLimiterVars)
  /\ WF_vars(RefillArm /\ UNCHANGED nonLimiterVars)
  /\ WF_vars(RefillFire /\ UNCHANGED nonLimiterVars)
  /\ WF_vars(SleepElapse /\ UNCHANGED nonLimiterVars)

SpecLimiterLive == InitLimiter /\ [][LimiterLiveNext]_vars /\ LimiterFairness

(***************************************************************************)
(* MovieDbClient.get (client.ts): rateLimiter.execute(executeJson(...)),   *)
(* optionally run under a caller's Effect.timeout.  Time is left out: the  *)
(* bucket is refilled, and the deadline fires, at any moment.              *)
(***************************************************************************)
\* exit of Effect.timeout when the duration is over
TimedOut == Failure(MkError("TimeoutException", MkMessage("", Absent, "")))

\* the client is built; the caller has the effect client.get(path) in hand,
\* wrapped in Effect.timeout or not
ClientInit ==
  /\ gPc = "ready"
  /\ gRate \in 1..MaxRate
  /\ gTokens = gRate
  /\ gTaken = 0
  /\ gDeadline \in {"none", "armed"}
  /\ gAttemptsAtDeadline = Absent
  /\ gObserved = NoResult

\* the caller runs client.get(path): the limiter's take is reached
ClientGet ==
  /\ gPc = "ready"
  /\ gPc' = "waiting"
  /\ UNCHANGED <<gRate, gTokens, gTaken, gDeadline, gAttemptsAtDeadline, gObserved>>
  /\ UNCHANGED <<retryVars, execVars>>

\* the take goes through and executeJson, retries included, starts
ClientAdmit ==
  /\ gPc = "waiting"
  /\ gTokens >= 1
  /\ gTokens' = gTokens - 1
  /\ gTaken' = gTaken + 1
  /\ gPc' = "admitted"
  /\ ExecStart
  /\ UNCHANGED <<gRate, gDeadline, gAttemptsAtDeadline, gObserved>>

\* one transport attempt of the admitted executeJson
ClientAttempt ==
  /\ gPc = "admitted"
  /\ ExecAttempt
  /\ UNCHANGED clientVars

\* a backoff wait of the admitted executeJson is over
ClientWake ==
  /\ gPc = "admitted"
  /\ ExecWake
  /\ UNCHANGED clientVars

\* executeJson settles and its exit is the exit of client.get
ClientSettle ==
  /\ gPc = "admitted"
  /\ ExecSettle
  /\ gPc' = "returned"
  /\ gObserved' = rResult
  /\ UNCHANGED <<gRate, gTokens, gTaken, gDeadline, gAttemptsAtDeadline>>

\* the caller's deadline fires while the call waits for its token, for the
\* transport or for a backoff: the fiber is interrupted
ClientDeadline ==
  /\ gDeadline = "armed"
  /\ gPc \in {"waiting", "admitted"}
  /\ gPc' = "interrupted"
  /\ gDeadline' = "fired"
  /\ gAttemptsAtDeadline' = rAttempts
  /\ gObserved' = TimedOut
  /\ UNCHANGED <<gRate, gTokens, gTaken>>
  /\ UNCHANGED <<retryVars, execVars>>

\* a request of another caller of the same client takes a token
OtherTake ==
  /\ gTokens >= 1
  /\ gTokens' = gTokens - 1
  /\ UNCHANGED <<gPc, gRate, gTaken, gDeadline, gAttemptsAtDeadline, gObserved>>
  /\ UNCHANGED <<retryVars, execVars>>

\* the limiter's refill fiber gives a token back
BucketRefill ==
  /\ gTokens < gRate
  /\ gTokens' = gTokens + 1
  /\ UNCHANGED <<gPc, gRate, gTaken, gDeadline, gAttemptsAtDeadline, gObserved>>
  /\ UNCHANGED <<retryVars, execVars>>

ClientNext ==
  \/ ClientGet /\ UNCHANGED <<classifyVars, streamVars, limiterVars, compatVars, timedVars, searchVars>>
  \/ ClientAdmit /\ UNCHANGED <<classifyVars, streamVars, limiterVars, compatVars, timedVars, searchVars>>
  \/ ClientAttempt /\ UNCHANGED <<classifyVars, streamVars, limiterVars, compatVars, timedVars, searchVars>>
  \/ ClientWake /\ UNCHANGED <<classifyVars, streamVars, limiterVars, compatVars, timedVars, searchVars>>
  \/ ClientSettle /\ UNCHANGED <<classifyVars, streamVars, limiterVars, compatVars, timedVars, searchVars>>
  \/ ClientDeadline /\ UNCHANGED <<classifyVars, streamVars, limiterVars, compatVars, timedVars, searchVars>>
  \/ OtherTake /\ UNCHANGED <<classifyVars, streamVars, limiterVars, compatVars, timedVars, searchVars>>
  \/ BucketRefill /\ UNCHANGED <<classifyVars, streamVars, limiterVars, compatVars, timedVars, searchVars>>

InitClient == ClientInit /\ ExecInit /\ RetryInit /\ ClassifyIdle /\ StreamIdle /\ LimiterIdle /\ CompatIdle /\ TimedIdle /\ SearchIdle

SpecClient == InitClient /\ [][ClientNext]_vars

(***************************************************************************)
(* MovieDbCompat (compat.ts): every method goes through runEffect, which   *)
(* provides the instance's appLayer to the one effect it runs.  The calls  *)
(* are made at one instant: no token is given back in between.             *)
(***************************************************************************)
MaxRuns == 4  \* method calls made on the instance

\* new MovieDbCompat(config): the layer is described, nothing is built
CompatInit ==
  /\ kRate \in 1..MaxRate
  /\ kRuns = <<>>
  /\ kLimiters = <<>>

\* a method of the instance is called: runEffect(effect)
CompatCall ==
  /\ Len(kRuns) < MaxRuns
  /\ kRuns' = Append(kRuns, [pc |-> "called", limiter |-> 0])
  /\ UNCHANGED <<kRate, kLimiters>>

\* Effect.provide(this.appLayer) builds the layer for this run:
\* RateLimiterLive makes a limiter, its bucket full
CompatProvide ==
  /\ \E i \in 1..Len(kRuns) :
       /\ kRuns[i].pc = "called"
       /\ kRuns' = [kRuns EXCEPT ![i].pc = "provided",
                                 ![i].limiter = Len(kLimiters) + 1]
  /\ kLimiters' = Append(kLimiters, kRate)
  /\ UNCHANGED kRate

\* the run's request is admitted by the limiter of its layer and starts
CompatAdmit ==
  /\ \E i \in 1..Len(kRuns) :
       /\ kRuns[i].pc = "provided"
       /\ kLimiters[kRuns[i].limiter] >= 1
       /\ kRuns' = [kRuns EXCEPT ![i].pc = "started"]
       /\ kLimiters' = [kLimiters EXCEPT ![kRuns[i].limiter] = @ - 1]
  /\ UNCHANGED kRate

\* the request is over and Effect.scoped closes the scope of the run
CompatClose ==
  /\ \E i \in 1..Len(kRuns) :
       /\ kRuns[i].pc = "started"
       /\ kRuns' = [kRuns EXCEPT ![i].pc = "closed"]
  /\ UNCHANGED <<kRate, kLimiters>>

CompatNext ==
  \/ CompatCall /\ UNCHANGED <<retryVars, classifyVars, execVars, streamVars, limiterVars, clientVars, timedVars, searchVars>>
  \/ CompatProvide /\ UNCHANGED <<retryVars, classifyVars, execVars, streamVars, limiterVars, clientVars, timedVars, searchVars>>
  \/ CompatAdmit /\ UNCHANGED <<retryVars, classifyVars, execVars, streamVars, limiterVars, clientVars, timedVars, searchVars>>
  \/ CompatClose /\ UNCHANGED <<retryVars, classifyVars, execVars, streamVars, limiterVars, clientVars, timedVars, searchVars>>

InitCompat == CompatInit /\ RetryInit /\ ClassifyIdle /\ ExecIdle /\ StreamIdle /\ LimiterIdle /\ ClientIdle /\ TimedIdle /\ SearchIdle

SpecCompat == InitCompat /\ [][CompatNext]_vars

(***************************************************************************)
(* withRetry under the test clock (http-client.test.ts): the retried       *)
(* effect is forked, the backoff sleeps are timers of the test clock, and  *)
(* the test moves the clock with TestClock.adjust.                         *)
(***************************************************************************)
MaxBackoffClock == 800  \* virtual time explored, ms

\* the failures and the value the retried operations of the tests end with;
\* a RateLimitError carries retryAfter (seconds) or not
TimedOutcomes ==
  {Success(42),
   Failure(MkError("NetworkError", MkMessage("", Absent, "Connection timeout"))),
   Failure(MkError("ServerError", MkMessage("", Absent, "Internal server error"))),
   Failure(MkError("AuthenticationError", MkMessage("", Absent, "Invalid API key")))}
    \cup {Failure([MkError("RateLimitError", MkMessage("", Absent, "Rate limit exceeded"))
                     EXCEPT !.retryAfter = ra]) : ra \in {Absent, 1}}

\* the clock is moved in steps of half the first backoff wait
AdjustStep == BaseDelayMs \div 2

TimedInit ==
  /\ tClock = 0
  /\ tWakeAt = Absent
  /\ tStarts = <<>>
  /\ tWaits = <<>>

\* withRetry(effect) |> Effect.fork: the first attempt starts
TimedStart ==
  /\ RetryStart
  /\ tStarts' = <<tClock>>
  /\ UNCHANGED <<tClock, tWakeAt, tWaits>>

\* one run of the operation; when Effect.retry decides to run it again the
\* fiber sleeps on the clock for the wait the schedule has chosen
TimedAttempt ==
  /\ \E o \in TimedOutcomes : RetryOnOutcome(o)
  /\ IF rPc' = "sleeping"
       THEN /\ tWakeAt' = tClock + rDelay'
            /\ tWaits' = Append(tWaits, [from |-> tClock, delay |-> rDelay'])
       ELSE UNCHANGED <<tWakeAt, tWaits>>
  /\ UNCHANGED <<tClock, tStarts>>

\* Clock.sleep returns once the clock has reached the end of the wait
SleepOverAtOnce == TRUE
SleepOver == tClock >= tWakeAt

\* the sleep is over and the next attempt starts
TimedWake ==
  /\ SleepOver
  /\ RetryWake
  /\ tStarts' = Append(tStarts, tClock)
  /\ tWakeAt' = Absent
  /\ UNCHANGED <<tClock, tWaits>>

\* TestClock.adjust: the clock moves on while the forked fiber runs or sleeps
Adjust ==
  /\ rPc \in {"attempting", "sleeping"}
  /\ tClock + AdjustStep <= MaxBackoffClock
  /\ tClock' = tClock + AdjustStep
  /\ UNCHANGED <<retryVars, tWakeAt, tStarts, tWaits>>

BackoffNext ==
  \/ TimedStart /\ UNCHANGED <<classifyVars, execVars, streamVars, limiterVars, clientVars, compatVars, searchVars>>
  \/ TimedAttempt /\ UNCHANGED <<classifyVars, execVars, streamVars, limiterVars, clientVars, compatVars, searchVars>>
  \/ TimedWake /\ UNCHANGED <<classifyVars, execVars, streamVars, limiterVars, clientVars, compatVars, searchVars>>
  \/ Adjust /\ UNCHANGED <<classifyVars, execVars, streamVars, limiterVars, clientVars, compatVars, searchVars>>

InitBackoff == TimedInit /\ RetryInit /\ ClassifyIdle /\ ExecIdle /\ StreamIdle /\ LimiterIdle /\ ClientIdle /\ CompatIdle /\ SearchIdle

SpecBackoff == InitBackoff /\ [][BackoffNext]_vars

(***************************************************************************)
(* Search.searchMovie (search.ts): client.get(path) followed by            *)
(* Schema.decodeUnknown(SearchMovieResponse) on the value it returns.      *)
(***************************************************************************)
\* what the JSON of a 2xx response holds, as the schema sees it
Payloads == {"conforming", "mismatch"}

\* Schema.decodeUnknown(schema)(value): the typed value, or a ParseError
DecodeLenient(payload, value) == Success(value)
Decode(payload, value) ==
  IF payload = "conforming" THEN Success(value)
  ELSE Failure(MkError("ParseError", MkMessage("", Absent, "Expected SearchMovieResponse")))

\* the Search service is built on a client; the caller holds
\* search.searchMovie(request)
SearchInit ==
  /\ qPc = "ready"
  /\ qPayload \in Payloads
  /\ qResult = NoResult

\* the effect is run: client.get(`/search/movie?...`) starts
SearchCall ==
  /\ qPc = "ready"
  /\ ClientGet
  /\ qPc' = "called"
  /\ UNCHANGED <<qPayload, qResult>>

\* client.get has returned: Effect.flatMap hands its value to the decoder;
\* a failure of client.get passes by the decoder
SearchDecode ==
  /\ qPc = "called"
  /\ gPc = "returned"
  /\ qPc' = "done"
  /\ qResult' = IF gObserved.ok THEN Decode(qPayload, gObserved.value) ELSE gObserved
  /\ UNCHANGED qPayload
  /\ UNCHANGED <<retryVars, execVars, clientVars>>

SearchNext ==
  \/ SearchCall /\ UNCHANGED <<classifyVars, streamVars, limiterVars, compatVars, timedVars>>
  \/ ClientAdmit /\ UNCHANGED <<classifyVars, streamVars, limiterVars, compatVars, timedVars, searchVars>>
  \/ ClientAttempt /\ UNCHANGED <<classifyVars, streamVars, limiterVars, compatVars, timedVars, searchVars>>
  \/ ClientWake /\ UNCHANGED <<classifyVars, streamVars, limiterVars, compatVars, timedVars, searchVars>>
  \/ ClientSettle /\ UNCHANGED <<classifyVars, streamVars, limiterVars, compatVars, timedVars, searchVars>>
  \/ SearchDecode /\ UNCHANGED <<classifyVars, streamVars, limiterVars, compatVars, timedVars>>

\* the call is made without a deadline
SearchClientInit == ClientInit /\ gDeadline = "none"

InitSearch == SearchInit /\ SearchClientInit /\ ExecInit /\ RetryInit /\ ClassifyIdle /\ StreamIdle /\ LimiterIdle /\ CompatIdle /\ TimedIdle

SpecSearch == InitSearch /\ [][SearchNext]_vars

RetryableTags == {"NetworkError", "RateLimitError", "ServerError"}

FailsWith(o, tag) == ~o.ok /\ o.error.tag = tag

\* C1: for each of NetworkError, RateLimitError and ServerError, an operation
\* that fails with that kind on its first two attempts is run a third time,
\* and when the third attempt succeeds withRetry returns that success value
\* after exactly 3 attempts.
C1_RetryTwiceThenSucceed ==
  \A E \in RetryableTags :
    /\ (Len(rHistory) \in 1..2 /\ \A i \in 1..Len(rHistory) : FailsWith(rHistory[i], E))
         => rPc \in {"sleeping", "attempting"}
    /\ (Len(rHistory) >= 3 /\ FailsWith(rHistory[1], E) /\ FailsWith(rHistory[2], E)
           /\ rHistory[3].ok)
         => /\ rPc = "done"
            /\ rResult = rHistory[3]
            /\ rAttempts = 3
            /\ Len(rHistory) = 3

C1_Witness ==
  /\ rPc = "done"
  /\ Len(rHistory) = 3
  /\ FailsWith(rHistory[1], "RateLimitError")
  /\ FailsWith(rHistory[2], "RateLimitError")
  /\ rResult = Success(42)

\* C2: the retryable kinds are exactly NetworkError, RateLimitError and
\* ServerError: a first failure of one of these is followed by another
\* attempt, and a failure of any other kind (AuthenticationError,
\* NotFoundError, ValidationError, TimeoutError, the generic MovieApiError,
\* ParseError) on the first attempt ends the call after exactly one attempt
\* with that same error value.
C2_RetryableExactly ==
  (Len(rHistory) >= 1 /\ ~rHistory[1].ok) =>
    IF rHistory[1].error.tag \in RetryableTags
      THEN Len(rHistory) = 1 => rPc \in {"sleeping", "attempting"}
      ELSE /\ rPc = "done"
           /\ rAttempts = 1
           /\ Len(rHistory) = 1
           /\ rResult = rHistory[1]

C2_Witness ==
  /\ rPc = "done"
  /\ rAttempts = 1
  /\ FailsWith(rHistory[1], "TimeoutError")
  /\ rResult = rHistory[1]

AllNetworkFailures == \A i \in 1..Len(rHistory) : FailsWith(rHistory[i], "NetworkError")

\* C3: an operation that always fails with NetworkError is attempted exactly
\* 4 times (1 + 3 retries) before the caller observes the failure, and no
\* withRetry call ever runs its operation more than 4 times.
C3_RetryBudget ==
  /\ rAttempts <= 4
  /\ rAttempts = Len(rHistory)
  /\ AllNetworkFailures =>
       /\ rPc = "done" <=> rAttempts = 4
       /\ rPc = "done" => rResult = rHistory[4]
       /\ rPc # "done" => rResult = NoResult

C3_Witness ==
  /\ rPc = "done"
  /\ rAttempts = 4
  /\ AllNetworkFailures
  /\ ~rResult.ok

ExpectedTag(code) ==
  IF code \in {401, 403} THEN "AuthenticationError"
  ELSE IF code = 404 THEN "NotFoundError"
  ELSE IF code = 429 THEN "RateLimitError"
  ELSE IF code \in {400, 422} THEN "ValidationError"
  ELSE IF code >= 500 THEN "ServerError"
  ELSE "MovieApiError"

BranchesApplying(code) ==
  {b \in {"auth", "notFound", "rateLimit", "validation", "server", "orElse"} :
     \/ b = "auth" /\ IsAuthStatus(code)
     \/ b = "notFound" /\ IsNotFoundStatus(code)
     \/ b = "rateLimit" /\ IsRateLimitStatus(code)
     \/ b = "validation" /\ IsValidationStatus(code)
     \/ b = "server" /\ IsServerStatus(code)
     \/ b = "orElse" /\ ~(IsAuthStatus(code) \/ IsNotFoundStatus(code)
                           \/ IsRateLimitStatus(code) \/ IsValidationStatus(code)
                           \/ IsServerStatus(code))}

\* C4: fromHttpStatus classifies every status code: 401/403 give
\* AuthenticationError, 404 gives NotFoundError with resource and id taken
\* from the context or 'unknown', 429 gives RateLimitError, 400/422 give
\* ValidationError, every code >= 500 gives ServerError carrying that code,
\* anything else gives the generic MovieApiError; exactly one branch applies.
C4_StatusClassification ==
  cPc = "done" =>
    /\ cResult.tag = ExpectedTag(cStatus)
    /\ cResult.tag = "NotFoundError" =>
         /\ cResult.resource = (IF cContext.resource = NoText THEN "unknown" ELSE cContext.resource)
         /\ cResult.id = (IF cContext.id = NoText THEN "unknown" ELSE cContext.id)
    /\ cResult.tag = "ServerError" => cResult.statusCode = cStatus
    /\ cResult.tag = "MovieApiError" => cResult.message.code = cStatus
    /\ Cardinality(BranchesApplying(cStatus)) = 1

C4_Witness ==
  /\ cPc = "done"
  /\ cStatus = 500
  /\ cResult.tag = "ServerError"
  /\ cResult.statusCode = 500

\* C5: a 429 response carrying a Retry-After header of value N makes
\* executeJson produce a RateLimitError whose retryAfter equals N.
C5_RetryAfterCarried ==
  \A i \in 1..Len(eResponses) :
    (eResponses[i].kind = "response" /\ eResponses[i].status = 429
       /\ eResponses[i].retryAfter # Absent)
      => /\ FailsWith(rHistory[i], "RateLimitError")
         /\ rHistory[i].error.retryAfter = eResponses[i].retryAfter

RECURSIVE ConcatPages(_)
\* the results of the fetched pages, concatenated in fetch order
ConcatPages(fetched) ==
  IF fetched = <<>> THEN <<>>
  ELSE ConcatPages(SubSeq(fetched, 1, Len(fetched) - 1))
         \o PageResults(fetched[Len(fetched)].page, fetched[Len(fetched)].size)

FetchedPageNumbers == [i \in 1..Len(sFetched) |-> sFetched[i].page]

FullyDrained == sOptions.take = NoLimit

\* the source ran out: the last fetched page was the last one it reports
SourceExhausted ==
  /\ sFetched # <<>>
  /\ sFetched[Len(sFetched)].page >= sFetched[Len(sFetched)].totalPages

\* C6: paginatedStream is lazy: a stream that is built but never run, or from
\* which zero items are taken, causes no fetchPage call; a consumer taking the
\* first k items, 1 <= k <= size of the first page, causes exactly one
\* fetchPage call however many pages the source reports.
C6_Lazy ==
  /\ sPc = "built" => sFetched = <<>>
  /\ (sOptions.consumer = "stream" /\ sOptions.take = 0) => sFetched = <<>>
  /\ (/\ sOptions.consumer = "stream"
      /\ sOptions.take >= 1
      /\ sOptions.maxResults # 0
      /\ sFetched # <<>> => sFetched[1].size >= sOptions.take)
       => /\ Len(sFetched) <= 1
          /\ sPc = "done" => Len(sFetched) = 1

C6_Witness ==
  /\ sPc = "done"
  /\ sOptions.consumer = "stream"
  /\ sOptions.take = 2
  /\ sOptions.maxResults = NoLimit
  /\ Len(sFetched) = 1
  /\ sFetched[1].size = 2
  /\ sFetched[1].totalPages = 3
  /\ sOut = <<Item(sOptions.startPage, 1), Item(sOptions.startPage, 2)>>

\* C7: with startPage s and maxPages m >= 1 over a source reporting at least
\* s + m - 1 pages, a fully drained stream calls fetchPage for exactly the
\* pages s, s+1, ..., s+m-1, once each, in that order.
C7_PageWindow ==
  (/\ sOptions.maxPages >= 1
   /\ sOptions.maxResults = NoLimit
   /\ FullyDrained
   /\ \A i \in 1..Len(sFetched) :
        sFetched[i].totalPages >= sOptions.startPage + sOptions.maxPages - 1)
    => /\ \A i \in 1..Len(sFetched) : sFetched[i].page = sOptions.startPage + i - 1
       /\ Len(sFetched) <= sOptions.maxPages
       /\ sPc = "done" => Len(sFetched) = sOptions.maxPages

C7_Witness ==
  /\ sPc = "done"
  /\ sOptions.startPage = 2
  /\ sOptions.maxPages = 2
  /\ sOptions.maxResults = NoLimit
  /\ FullyDrained
  /\ FetchedPageNumbers = <<2, 3>>

ExpectedOut(items) == IF sOptions.consumer \in {"map", "mapEffect"} THEN MapSeq(items) ELSE items

\* C8: with maxResults = n (and no maxPages), a fully drained stream over a
\* source holding at least n items yields exactly n items, the first n of the
\* concatenated pages, also when the n-th item falls inside a page; it yields
\* fewer only when the source ran out first.
C8_MaxResultsExact ==
  (/\ sOptions.maxResults # NoLimit
   /\ sOptions.maxPages = NoLimit
   /\ FullyDrained)
    => /\ Len(sOut) <= sOptions.maxResults
       /\ sPc = "done" =>
            /\ sOut = ExpectedOut(TakeSeq(ConcatPages(sFetched), sOptions.maxResults))
            /\ Len(sOut) = sOptions.maxResults \/ SourceExhausted

C8_Witness ==
  /\ sPc = "done"
  /\ sOptions.consumer = "collect"
  /\ sOptions.maxResults = 3
  /\ sOptions.maxPages = NoLimit
  /\ Len(sFetched) = 2
  /\ sFetched[1].size = 2
  /\ sFetched[2].size = 2
  /\ ~SourceExhausted
  /\ Len(sOut) = 3

\* C9: with no bounds set, a fully drained paginatedStream / collectAllPages /
\* mapPaginated yields the concatenation of the fetched pages' results in
\* page order then within-page order, the pages are requested consecutively
\* from startPage, and fetching stops after the first page whose number is
\* >= the totalPages that page reports.
C9_Concatenation ==
  (/\ sOptions.consumer \in {"stream", "collect", "map"}
   /\ sOptions.maxPages = NoLimit
   /\ sOptions.maxResults = NoLimit
   /\ FullyDrained)
    => /\ \A i \in 1..Len(sFetched) :
            /\ sFetched[i].page = sOptions.startPage + i - 1
            /\ i < Len(sFetched) => sFetched[i].page < sFetched[i].totalPages
       /\ sPc = "done" =>
            /\ SourceExhausted
            /\ sOut = ExpectedOut(ConcatPages(sFetched))

C9_Witness ==
  /\ sPc = "done"
  /\ sOptions.consumer = "map"
  /\ sOptions.startPage = 1
  /\ sOptions.maxPages = NoLimit
  /\ sOptions.maxResults = NoLimit
  /\ FetchedPageNumbers = <<1, 2, 3>>
  /\ sOut = MapSeq(<<Item(1, 1), Item(1, 2), Item(3, 1)>>)

\* C10: mapPaginatedEffect with concurrency c > 1 emits and returns the
\* transformed results in the original item order (page order, then
\* within-page order) in every interleaving, including those in which the
\* transformations complete out of order.
C10_OrderPreserved ==
  (sOptions.consumer = "mapEffect" /\ sOptions.concurrency > 1)
    => /\ sOut = MapSeq(TakeSeq(mPulled, Len(sOut)))
       /\ sPc = "done" =>
            sOut = MapSeq(IF sOptions.maxResults = NoLimit
                            THEN ConcatPages(sFetched)
                            ELSE TakeSeq(ConcatPages(sFetched), sOptions.maxResults))

C10_Witness ==
  /\ sPc = "done"
  /\ sOptions.consumer = "mapEffect"
  /\ sOptions.concurrency > 1
  /\ mOvertaken
  /\ Len(sOut) >= 4
  /\ Len(sFetched) >= 2

\* C11: during mapPaginatedEffect with concurrency limit c (1 when the
\* caller gives none, i.e. sequential), the number of item transformations
\* that have started and not yet completed never exceeds c.
C11_InFlightBounded ==
  sOptions.consumer = "mapEffect" =>
    /\ Cardinality({i \in 1..mStarted : i \notin mCompleted /\ i \notin mFailed})
         <= sOptions.concurrency
    /\ mCompleted \cup mFailed \subseteq 1..mStarted

C11_Witness ==
  /\ sOptions.consumer = "mapEffect"
  /\ sOptions.concurrency = 2
  /\ mStarted = 3
  /\ mCompleted = {2}

\* the items of the pages fetched before the failing fetchPage call
PagesBeforeFailure ==
  ConcatPages(SelectSeq(sFetched, LAMBDA f : f.ok))

\* what holds of every failed run: it ends with exactly the first error and
\* no list, never with a success, and a streaming consumer has seen exactly
\* the items of the pages fetched before the failing one
FailureSurfaces ==
  /\ sPc # "done"
  /\ sResult.ok = FALSE /\ sResult.items = <<>>
  /\ sPc = "failed" => sResult.error = sError
  /\ (sPc = "failed" /\ sOptions.consumer = "stream") =>
       /\ sError.source = "fetchPage"
       /\ sOut = PagesBeforeFailure

\* the failure was one of a transformation run by mapPaginatedEffect with
\* concurrency > 1
ConcurrentFnFailure ==
  /\ sError.source = "fn"
  /\ sOptions.consumer = "mapEffect"
  /\ sOptions.concurrency > 1

C13_Transparent ==
  \A i \in 1..Len(lCalls) :
    LET call == lCalls[i] IN
      /\ call.runs <= 1
      /\ call.pc = "waiting" =>
           call.runs = 0 /\ call.op = NoResult /\ call.result = NoResult /\ call.at = Absent
      /\ call.pc = "done" => /\ call.runs = 1
                             /\ call.op \in LimiterOps
                             /\ call.result = call.op
                             /\ call.at >= call.since
      /\ call.result \in {NoResult, call.op}

C13_Witness ==
  \E i \in 1..Len(lCalls) :
    /\ lCalls[i].pc = "done"
    /\ ~lCalls[i].op.ok
    /\ lCalls[i].result = lCalls[i].op
    /\ lCalls[i].at > lCalls[i].since

\* the calls submitted at instant t
Burst(t) == {i \in 1..Len(lCalls) : lCalls[i].since = t}

\* C14: with requestsPerSecond = r, 2r operations issued at the same instant
\* are not all admitted before 1 second of virtual time has passed since the
\* first of them was admitted.
C14_BurstTakesASecond ==
  \A t \in {lCalls[i].since : i \in 1..Len(lCalls)} :
    (Cardinality(Burst(t)) = 2 * lRate /\ Burst(t) \subseteq Admitted)
      => \E i, j \in Burst(t) : lCalls[j].at - lCalls[i].at >= 1000

C14_Witness ==
  /\ lRate = 2
  /\ Len(lCalls) = 4
  /\ Burst(0) = 1..4
  /\ Burst(0) \subseteq Admitted
  /\ \E i, j \in Burst(0) : lCalls[i].at = 0 /\ lCalls[j].at = 1000

\* operations started at an instant within [from, to], the ends counted as told
StartsWithin(from, to, fromIncluded, toIncluded) ==
  Cardinality({i \in 1..Len(lCalls) :
                 /\ lCalls[i].at # Absent
                 /\ IF fromIncluded THEN lCalls[i].at >= from ELSE lCalls[i].at > from
                 /\ IF toIncluded THEN lCalls[i].at <= to ELSE lCalls[i].at < to})

\* C15: the token balance stays between 0 and r = requestsPerSecond, every
\* admitted operation has consumed exactly one token (so none started without
\* a token available), and the operations started in any interval of length
\* 1 second number at most r plus the balance held at the start of the
\* interval, hence at most 2r.
C15_TokenBucket ==
  /\ lTokens >= 0
  /\ lTokens <= lRate
  /\ lTokens = lRate + lRefilled - Cardinality(Admitted)
  /\ \A k \in 1..Len(lMarks) :
       LET from == lMarks[k].time
           started == StartsWithin(from, from + 1000, TRUE, FALSE)
       IN /\ started <= lRate + lMarks[k].balance
          /\ started <= 2 * lRate
          /\ k < Len(lMarks) =>
               StartsWithin(from, from + 1000, FALSE, TRUE) <= lRate + lMarks[k + 1].balance

C15_Witness ==
  /\ lRate = 2
  /\ lClock >= 1250
  /\ lTokens = 0
  /\ \E k \in 1..Len(lMarks) :
       /\ lMarks[k].balance = 2
       /\ StartsWithin(lMarks[k].time, lMarks[k].time + 1000, TRUE, FALSE) = 3

\* log lines that report the outcome of a call
OutcomeLogs == SelectSeq(eLogs, LAMBDA l : l \in {"completed", "failed"})

RECURSIVE BackoffTotal(_)
\* the waits before the first n retries, added up
BackoffTotal(n) == IF n = 0 THEN 0 ELSE BackoffTotal(n - 1) + Min(100 * Pow2(n - 1), 10000)

\* C18: each executeJson call produces exactly one set of outcome emissions
\* however many retries happen inside it: exactly one update of the duration
\* histogram and exactly one of the completion log or the failure log, with
\* the duration measured from the first attempt to the final settlement;
\* failed attempts that are retried emit no metric and no failure log.
C18_OneEmissionPerCall ==
  /\ ePc \in {"ready", "running"} =>
       /\ OutcomeLogs = <<>>
       /\ eDurations = 0
       /\ eRequests = 0
       /\ eErrors = 0
  /\ ePc = "done" =>
       /\ rPc = "done"
       /\ Len(OutcomeLogs) = 1
       /\ OutcomeLogs[1] = (IF rResult.ok THEN "completed" ELSE "failed")
       /\ eDurations = 1
       /\ eRequests + eErrors = 1
       /\ eDuration = BackoffTotal(rAttempts - 1)

C18_Witness ==
  /\ ePc = "done"
  /\ rAttempts = 4
  /\ ~rResult.ok
  /\ eLogs = <<"started", "failed">>
  /\ eDurations = 1
  /\ eDuration = 700

\* C19: each executeJson call increments the request counter exactly once
\* whether it finally succeeds or fails, and the error counter exactly once
\* if and only if it finally fails.
C19_CountersPerCall ==
  ePc = "done" =>
    /\ eRequests = 1
    /\ eErrors = (IF rResult.ok THEN 0 ELSE 1)

\* C16: within one client.get call every transport attempt, the first and
\* each retry, is submitted through the rate limiter and consumes one token
\* before it is sent: the tokens a call consumes equal its attempts.
C16_TokenPerAttempt ==
  gPc \in {"admitted", "returned"} =>
    \/ gTaken = rAttempts
    \/ gTaken = rAttempts + 1 /\ rPc = "attempting"

\* C17: the requests made through one MovieDbCompat instance, concurrent or
\* successive, are admitted by one shared rate limiter created once for its
\* configuration, so at most requestsPerSecond of them start at one instant.
C17_SharedLimiter ==
  /\ Len(kLimiters) <= 1
  /\ \A i \in 1..Len(kRuns) : kRuns[i].limiter \in {0, 1}
  /\ Cardinality({i \in 1..Len(kRuns) : kRuns[i].pc \in {"started", "closed"}}) <= kRate

\* C20: a deadline around client.get interrupts the call wherever it waits
\* (admission, backoff, transport), no attempt is started after it fired,
\* and the caller observes a TimeoutError (or the underlying NetworkError).
C20_DeadlineSurfacesTimeoutError ==
  gDeadline = "fired" =>
    /\ gPc = "interrupted"
    /\ rAttempts = gAttemptsAtDeadline
    /\ ~gObserved.ok
    /\ gObserved.error.tag \in {"TimeoutError", "NetworkError"}

\* C21: the waits withRetry inserts before retry 1, 2 and 3 are 100 ms, 200 ms
\* and 400 ms, no single wait exceeds 10 seconds, and attempt k+1 never
\* starts before the k-th wait has fully elapsed on the clock.
C21_BackoffWaits ==
  /\ Len(tWaits) <= 3
  /\ Len(tWaits) >= 1 => tWaits[1].delay = 100
  /\ Len(tWaits) >= 2 => tWaits[2].delay = 200
  /\ Len(tWaits) >= 3 => tWaits[3].delay = 400
  /\ \A k \in 1..Len(tWaits) : tWaits[k].delay <= 10000
  /\ Len(tStarts) = rAttempts + (IF rPc = "attempting" THEN 1 ELSE 0)
  /\ \A k \in 1..Len(tWaits) :
       /\ Len(tStarts) > k => tStarts[k + 1] >= tWaits[k].from + tWaits[k].delay
       /\ tClock < tWaits[k].from + tWaits[k].delay => Len(tStarts) = k

C21_Witness ==
  /\ rPc = "done"
  /\ rAttempts = 4
  /\ Len(tWaits) = 3
  /\ tStarts = <<0, 100, 300, 700>>

\* C22: when retrying after a RateLimitError, withRetry backs off using the
\* Retry-After value: the wait before the next attempt is derived from the
\* error's retryAfter seconds, so it lasts at least that long.
C22_RetryAfterHonoured ==
  \A k \in 1..Len(tWaits) :
    (FailsWith(rHistory[k], "RateLimitError") /\ rHistory[k].error.retryAfter # Absent)
      => tWaits[k].delay >= rHistory[k].error.retryAfter * 1000

\* C23: when maxPages is set the stream stops once pagesFetched reaches
\* maxPages: for every maxPages value m >= 0 and every source, the number of
\* fetchPage calls made by one stream never exceeds m.
C23_MaxPagesBound ==
  sOptions.maxPages # NoLimit => Len(sFetched) <= sOptions.maxPages

\* the number of items the consumer reads at most: its take, the maxResults
\* option, or the smaller of the two
ReadLimit ==
  IF sOptions.take = NoLimit THEN sOptions.maxResults
  ELSE IF sOptions.maxResults = NoLimit THEN sOptions.take
  ELSE Min(sOptions.take, sOptions.maxResults)

\* every page fetched so far held pageSize items
FixedPageSize(pageSize) ==
  \A i \in 1..Len(sFetched) : sFetched[i].ok /\ sFetched[i].size = pageSize

Ceil(n, d) == (n + d - 1) \div d

\* C24: laziness composes with truncation: a consumer that reads only N >= 1
\* items (via take or via maxResults = N) from a source with a fixed page size
\* triggers exactly ceil(N / pageSize) fetchPage calls, and no page beyond
\* the one containing the N-th item is ever fetched.
C24_LazyTruncation ==
  \A pageSize \in 1..MaxPageSize :
    (ReadLimit >= 1 /\ FixedPageSize(pageSize))
      => /\ Len(sFetched) <= Ceil(ReadLimit, pageSize)
         /\ (sPc = "done" /\ Len(sOut) = ReadLimit)
              => Len(sFetched) = Ceil(ReadLimit, pageSize)

C24_Witness ==
  /\ sPc = "done"
  /\ sOptions.maxResults = 3
  /\ sOptions.maxPages = NoLimit
  /\ FixedPageSize(2)
  /\ Len(sOut) = 3
  /\ Len(sFetched) = 2
  /\ sFetched[2].totalPages > sFetched[2].page

\* the items paginatedStream has yielded to what consumes it
Yielded == IF sOptions.consumer = "mapEffect" THEN mPulled ELSE sOut

\* the pages fetched before the latest one
EarlierPages == SubSeq(sFetched, 1, Len(sFetched) - 1)

\* C25: within one consumption the requested page numbers are startPage,
\* startPage+1, startPage+2, ... with no gap and no repetition; pagesFetched
\* always equals currentPage - startPage; and the items of page p are yielded
\* before page p+1 is fetched.
C25_PaginationState ==
  /\ \A i \in 1..Len(sFetched) : sFetched[i].page = sOptions.startPage + i - 1
  /\ sState.some => sState.pagesFetched = sState.currentPage - sOptions.startPage
  /\ sState.some => sState.pagesFetched \in {Len(sFetched) - 1, Len(sFetched)}
  /\ Len(sFetched) >= 2 =>
       /\ Len(Yielded) >= Len(ConcatPages(EarlierPages))
       /\ TakeSeq(Yielded, Len(ConcatPages(EarlierPages)))
            = (IF sOptions.consumer = "map" THEN MapSeq(ConcatPages(EarlierPages))
               ELSE ConcatPages(EarlierPages))

C25_Witness ==
  /\ sPc = "running"
  /\ sOptions.startPage = 2
  /\ FetchedPageNumbers = <<2, 3>>
  /\ sFetched[1].size = 2
  /\ sFetched[2].size = 2
  /\ sFetched[2].totalPages = 3
  /\ Len(sBuf) = 2
  /\ Len(Yielded) = 2

\* every response so far was a success reporting totalPages = total
SteadySource(total) ==
  \A i \in 1..Len(sFetched) : sFetched[i].ok /\ sFetched[i].totalPages = total

Max(a, b) == IF a >= b THEN a ELSE b

FetchesWithinTotal ==
  \A total \in 1..MaxPage :
    SteadySource(total) => Len(sFetched) <= Max(1, total - sOptions.startPage + 1)

\* C26: for a fetchPage that always succeeds and reports the same finite
\* totalPages T on every page, draining paginatedStream (with or without
\* maxPages / maxResults) terminates, after at most max(1, T - startPage + 1)
\* fetchPage calls.
C26_DrainTerminates ==
  /\ []FetchesWithinTotal
  /\ <>(sPc = "done")

C26_Witness ==
  /\ sPc = "done"
  /\ sOptions.startPage = 2
  /\ sOptions.maxPages = NoLimit
  /\ sOptions.maxResults = NoLimit
  /\ FullyDrained
  /\ SteadySource(3)
  /\ Len(sFetched) = 2

\* C27: a schema-decode failure on a 2xx response is terminal: it is never
\* retried, so a call whose transport attempt succeeds but whose payload fails
\* decoding makes exactly one transport attempt and surfaces the decode
\* failure to the caller.
C27_DecodeFailureTerminal ==
  (qPc = "done" /\ gObserved.ok /\ qPayload = "mismatch")
    => /\ FailsWith(qResult, "ParseError")
       /\ rPc = "done"
       /\ rHistory[Len(rHistory)].ok
       /\ Len(eResponses) = rAttempts
       /\ rHistory[1].ok => (rAttempts = 1 /\ Len(eResponses) = 1)
       /\ \A i \in 1..(Len(rHistory) - 1) : ~rHistory[i].ok /\ RetryWhile(rHistory[i].error)

C27_Witness ==
  /\ qPc = "done"
  /\ qPayload = "mismatch"
  /\ eResponses = <<Response(200, Absent, "json")>>
  /\ rAttempts = 1
  /\ FailsWith(qResult, "ParseError")

\* the limiter has failed no call itself: a call either waits or has run its
\* operation and ended with the operation's exit
NoRejection ==
  \A i \in 1..Len(lCalls) :
    \/ lCalls[i].pc = "waiting" /\ lCalls[i].result = NoResult
    \/ lCalls[i].pc = "done" /\ lCalls[i].runs = 1 /\ lCalls[i].result = lCalls[i].op

C29_PredicateEveryAttempt ==
  \A k \in 2..Len(rHistory) :
    (~rHistory[k].ok /\ rHistory[k].error.tag \notin RetryableTags)
      => /\ \A j \in 1..(k - 1) :
              ~rHistory[j].ok /\ rHistory[j].error.tag \in RetryableTags
         /\ Len(rHistory) = k
         /\ rAttempts = k
         /\ rPc = "done"
         /\ rResult = rHistory[k]

C29_Witness ==
  /\ rPc = "done"
  /\ rAttempts = 2
  /\ FailsWith(rHistory[1], "ServerError")
  /\ FailsWith(rHistory[2], "NotFoundError")
  /\ rResult = rHistory[2]

UnparsableOk(t) == t.kind = "response" /\ Is2xx(t.status) /\ t.body # "json"

\* C30: in executeJson a 2xx response whose body cannot be parsed as JSON is
\* routed through fromHttpStatus with its 2xx status code and surfaces as the
\* generic fallback error ('HTTP <code>: ...'), not as ValidationError or
\* NetworkError, and because that kind is not retryable the attempt is the
\* last one: a call that gets such a response first makes exactly one
\* transport attempt.
C30_UnparsableBodyIsGeneric ==
  \A i \in 1..Len(eResponses) :
    UnparsableOk(eResponses[i])
      => /\ rHistory[i] = Failure(fromHttpStatus(eResponses[i].status, StatusText, NoContext))
         /\ rHistory[i].error.tag = "MovieApiError"
         /\ rHistory[i].error.message = MkMessage("HTTP ", eResponses[i].status, StatusText)
         /\ Len(eResponses) = i
         /\ rAttempts = i
         /\ rPc = "done"
         /\ rResult = rHistory[i]
         /\ ePc = "done" => (eErrors = 1 /\ eRequests = 0)

C30_Witness ==
  /\ ePc = "done"
  /\ eResponses = <<Response(200, Absent, "garbage")>>
  /\ rAttempts = 1
  /\ FailsWith(rResult, "MovieApiError")
  /\ rResult.error.message.code = 200

====
